---- MODULE Spec2Model ----
(***************************************************************************)
(* Model of jedi_language_server/server.py: the seven handlers registered  *)
(* on SERVER (five read requests, did-change, did-open) and the document   *)
(* store (server.workspace) they share.                                    *)
(*                                                                         *)
(* server.workspace is the pygls Workspace object.  Its two methods that   *)
(* the handlers call, put_document and update_document, are modelled at    *)
(* their call sites with the behaviour of the pygls release that has       *)
(* SERVER.sync_kind (pygls 0.8.1):                                         *)
(*   put_document(td)       _docs[td.uri] = Document(td.text, td.version)  *)
(*   update_document(td,c)  _docs[td.uri].apply_change(c)   (KeyError when *)
(*                          the uri is not in _docs)                       *)
(*                          _docs[td.uri].version = td.version             *)
(*   apply_change(c)        under sync kind FULL every entry, with or      *)
(*                          without a range, replaces the whole text by    *)
(*                          c.text (a ranged entry is only logged)         *)
(* server_utils (get_jedi_script, locations_from_definitions) and type_map  *)
(* (get_lsp_type) are modules of the package that server.py imports; they  *)
(* are modelled from the design document.                                  *)
(* Handlers are plain functions registered with SERVER.feature: pygls runs *)
(* such a handler to completion on its event loop before it reads the next *)
(* message, so messages are handled one at a time in arrival order.        *)
(***************************************************************************)
EXTENDS Integers, Sequences, FiniteSets, TLC

\* ------------------------------------------------------------------ bounds
MaxVersion == 2
MaxChanges == 2
MaxResults == 3
MaxTextLen == 3

\* ------------------------------------------------------------------ values
Uris == {"a.py", "b.py"}
Texts == {"t1", "t2"}
Versions == 1..MaxVersion
Ranges == {"r1", "r2"}
Names == {"n1", "n2"}

ReadKinds == {"completion", "definition", "hover", "references", "rename"}

\* A document of the store: text and version.  NoDoc: the uri is not a key.
NoDoc == [text |-> "-", version |-> 0]

\* One entry of params.contentChanges: the text it carries, and whether it
\* carries a range (an incremental edit) or not (a full replacement).
Changes == [text : Texts, ranged : BOOLEAN]
ChangeLists == UNION {[1..n -> Changes] : n \in 0..MaxChanges}

\* What the engine (jedi) hands back for goto_assignments, goto_definitions
\* and usages: objects with a file and a range; the objects at r1 have an
\* empty docstring.
Definitions == [uri : Uris, range : Ranges]
DefinitionLists == UNION {[1..n -> Definitions] : n \in 0..MaxResults}
docstring(definition) == IF definition.range = "r1" THEN "" ELSE "doc"

\* What happens before the handler has an engine answer: nothing, the
\* position is outside the text, or the engine cannot analyse the text.
Faults == {"none", "PositionOutOfRange", "AnalysisUnavailable"}

VARIABLES
    docs,       \* server.workspace._docs: uri -> document, NoDoc when absent
    cur,        \* the lsp_did_change call in progress: params and loop index
    last,       \* the handler call that has finished and is being returned
    committed,  \* docs as they were when the last notification handler ended
    mirror,     \* per uri, the text and version of the last notification the
                \* client sent that the store accepted (the client's view)
    prev,       \* when the call returned last was a did-change that applied
                \* its entries: its uri, and whether the document passed
                \* through a half-applied state on the way; else NoPrev
    counting,   \* whether baseline is kept (SpecCount) or not (Spec)
    baseline    \* per uri, v0 + N: the version of the did-open plus the number
                \* of did-change notifications applied since (counted up to
                \* MaxVersion + 1); 0 before the did-open

vars == <<docs, cur, last, committed, mirror, prev, counting, baseline>>

Idle == [active |-> FALSE, uri |-> "-", version |-> 0, changes |-> <<>>,
         i |-> 0, pre |-> [u \in Uris |-> NoDoc], half |-> FALSE]

NoPrev == [uri |-> "-", half |-> FALSE]

NoCall == [kind |-> "none", uri |-> "-", outcome |-> "none", version |-> 0,
           text |-> "-", n |-> 0, ranged |-> FALSE, half |-> FALSE,
           obs |-> NoDoc, afterChange |-> FALSE, afterHalf |-> FALSE,
           pre |-> [u \in Uris |-> NoDoc],
           newName |-> "-", fault |-> "none", answer |-> <<>>, none |-> FALSE,
           result |-> <<>>]

\* ------------------------------------------------------------------ store
sync_kind == "FULL"

apply_change(text, change) ==
    IF change.ranged /\ sync_kind = "INCREMENTAL"
    THEN "patched"
    ELSE change.text

\* update_document with slips: the text left as it was; the version counted
\* up instead of taken from the notification; the version left as it was; an
\* unknown uri registered instead of refused; the entry written to every
\* document before the unknown uri is refused.
update_document_version_only(d, uri, change, version) ==
    IF d[uri] = NoDoc
    THEN [err |-> "KeyError", docs |-> d]
    ELSE [err |-> "none", docs |-> [d EXCEPT ![uri].version = version]]

update_document_increment(d, uri, change, version) ==
    IF d[uri] = NoDoc
    THEN [err |-> "KeyError", docs |-> d]
    ELSE [err |-> "none",
          docs |-> [d EXCEPT ![uri] =
                      [text |-> apply_change(d[uri].text, change),
                       version |-> d[uri].version + 1]]]

update_document_keep_version(d, uri, change, version) ==
    IF d[uri] = NoDoc
    THEN [err |-> "KeyError", docs |-> d]
    ELSE [err |-> "none",
          docs |-> [d EXCEPT ![uri].text = apply_change(d[uri].text, change)]]

update_document_creating(d, uri, change, version) ==
    [err |-> "none",
     docs |-> [d EXCEPT ![uri] = [text |-> change.text, version |-> version]]]

update_document_broadcast(d, uri, change, version) ==
    LET written == [u \in Uris |->
                      IF d[u] = NoDoc
                      THEN NoDoc
                      ELSE [text |-> change.text, version |-> version]]
    IN  IF d[uri] = NoDoc
        THEN [err |-> "KeyError", docs |-> written]
        ELSE [err |-> "none", docs |-> [d EXCEPT ![uri] = written[uri]]]

update_document(d, uri, change, version) ==
    IF d[uri] = NoDoc
    THEN [err |-> "KeyError", docs |-> d]
    ELSE [err |-> "none",
          docs |-> [d EXCEPT ![uri] =
                      [text |-> apply_change(d[uri].text, change),
                       version |-> version]]]

\* put_document with a slip: a document already in the store keeps its version.
put_document_merge(d, uri, text, version) ==
    IF d[uri] = NoDoc
    THEN [d EXCEPT ![uri] = [text |-> text, version |-> version]]
    ELSE [d EXCEPT ![uri].text = text]

\* put_document building a fresh store around the opened document.
put_document_reset(d, uri, text, version) ==
    [u \in Uris |-> IF u = uri THEN [text |-> text, version |-> version]
                    ELSE NoDoc]

put_document(d, uri, text, version) ==
    [d EXCEPT ![uri] = [text |-> text, version |-> version]]

\* ------------------------------------------------------------------ dispatch
\* The read handlers registered as threads.
IsThreaded_reads(kind) == kind \in ReadKinds

\* A handler registered with SERVER.feature alone is not run in a thread.
IsThreaded(kind) == FALSE

\* The event loop takes the next message when the call before has returned;
\* only a threaded handler could start while lsp_did_change is in its loop.
Dispatchable(kind) == last = NoCall /\ (~cur.active \/ IsThreaded(kind))

HasRanged(changes) == \E k \in 1..Len(changes) : changes[k].ranged

\* The document lsp_did_change leaves when all entries of the call are applied.
FinalDoc(c) == [text |-> c.changes[Len(c.changes)].text, version |-> c.version]

Bump(b) == IF b > MaxVersion THEN b ELSE b + 1

\* The call is over: its result (or failure) goes back to the event loop.
Return ==
    /\ last # NoCall
    /\ last' = NoCall
    /\ prev' = IF last.kind = "did_change" /\ last.outcome = "ok" /\ last.n > 0
               THEN [uri |-> last.uri, half |-> last.half]
               ELSE NoPrev
    /\ UNCHANGED <<docs, cur, committed, mirror, counting, baseline>>

\* ------------------------------------------------------------------ did-open
lsp_did_open ==
    /\ Dispatchable("did_open")
    /\ \E uri \in Uris, text \in Texts, version \in Versions :
          /\ docs' = put_document(docs, uri, text, version)
          /\ last' = [NoCall EXCEPT !.kind = "did_open", !.uri = uri,
                                    !.outcome = "ok", !.version = version,
                                    !.text = text, !.pre = docs]
          /\ committed' = docs'
          /\ mirror' = [mirror EXCEPT ![uri] = [text |-> text, version |-> version]]
          /\ baseline' = IF counting
                         THEN [baseline EXCEPT ![uri] = version]
                         ELSE baseline
    /\ UNCHANGED <<cur, prev, counting>>

\* ------------------------------------------------------------------ did-change
\* `if params.contentChanges:` is false: the call returns None and the store
\* is as it was.
on_empty_payload_versioned(d, uri, version) ==
    [outcome |-> "ok",
     docs |-> IF d[uri] = NoDoc THEN d ELSE [d EXCEPT ![uri].version = version]]

on_empty_payload(d, uri, version) == [outcome |-> "ok", docs |-> d]

\* Entry of lsp_did_change: an empty payload returns at once, otherwise the
\* loop over params.contentChanges starts.
lsp_did_change ==
    /\ Dispatchable("did_change")
    /\ ~cur.active
    /\ \E uri \in Uris, version \in Versions, changes \in ChangeLists :
          IF changes = <<>>
          THEN LET r == on_empty_payload(docs, uri, version)
               IN  /\ last' = [NoCall EXCEPT !.kind = "did_change", !.uri = uri,
                                             !.outcome = r.outcome,
                                             !.version = version, !.pre = docs]
                   /\ docs' = r.docs
                   /\ committed' = r.docs
                   /\ UNCHANGED cur
          ELSE /\ cur' = [active |-> TRUE, uri |-> uri, version |-> version,
                          changes |-> changes, i |-> 0, pre |-> docs,
                          half |-> FALSE]
               /\ UNCHANGED <<docs, last, committed>>
    /\ UNCHANGED <<mirror, prev, counting, baseline>>

\* The record of the lsp_did_change call in progress, as it ends.
DidChangeCall(c, outcome) ==
    [NoCall EXCEPT !.kind = "did_change", !.uri = c.uri, !.outcome = outcome,
                   !.version = c.version, !.n = Len(c.changes),
                   !.ranged = HasRanged(c.changes), !.half = c.half,
                   !.pre = c.pre]

\* One iteration of the loop: workspace.update_document for entry i + 1.  An
\* exception ends the call; the last iteration returns.
lsp_did_change_step ==
    /\ cur.active
    /\ last = NoCall
    /\ LET r == update_document(docs, cur.uri, cur.changes[cur.i + 1], cur.version)
           n == Len(cur.changes)
       IN  IF r.err # "none"
           THEN /\ docs' = r.docs
                /\ cur' = Idle
                /\ last' = DidChangeCall(cur, r.err)
                /\ committed' = docs'
                /\ UNCHANGED <<mirror, baseline>>
           ELSE /\ docs' = r.docs
                /\ IF cur.i + 1 = n
                   THEN /\ cur' = Idle
                        /\ last' = DidChangeCall(cur, "ok")
                        /\ committed' = docs'
                        /\ mirror' = [mirror EXCEPT ![cur.uri] = FinalDoc(cur)]
                        /\ baseline' = IF counting
                                       THEN [baseline EXCEPT ![cur.uri] = Bump(@)]
                                       ELSE baseline
                   ELSE /\ cur' = [cur EXCEPT
                                     !.i = @ + 1,
                                     !.half = @ \/ r.docs[cur.uri] \notin
                                                {cur.pre[cur.uri], FinalDoc(cur)}]
                        /\ UNCHANGED <<last, committed, mirror, baseline>>
    /\ UNCHANGED <<prev, counting>>

\* ------------------------------------------------------------------ reads
\* server_utils.get_jedi_script: the snapshot of the document the engine is
\* given, or the failure of the store (uri not tracked) or of the position.
get_jedi_script(d, uri, fault) ==
    IF d[uri] = NoDoc
    THEN [err |-> "UnknownDocument", source |-> NoDoc]
    ELSE IF fault = "PositionOutOfRange"
         THEN [err |-> fault, source |-> NoDoc]
         ELSE [err |-> "none", source |-> d[uri]]

\* server_utils.locations_from_definitions: one Location per engine object,
\* in the engine's order.
locations_from_definitions(definitions) ==
    [k \in 1..Len(definitions) |->
        [uri |-> definitions[k].uri, range |-> definitions[k].range]]

\* How a read handler ends: the script could not be made, the engine call
\* raised (no handler catches it), or the engine answered.
ReadOutcome(script, fault) ==
    IF script.err # "none" THEN script.err
    ELSE IF fault = "AnalysisUnavailable" THEN fault
    ELSE "ok"

\* The part the five read handlers share: the script is made from the store,
\* the engine is asked, and the store is left alone.
\* A read handler that also applies what it computed to the buffer.
ReadCall_applying(kind, uri, fault, answer, result) ==
    /\ LET script == get_jedi_script(docs, uri, fault)
           outcome == ReadOutcome(script, fault)
       IN  /\ last' = [result EXCEPT
                         !.kind = kind, !.uri = uri, !.outcome = outcome,
                         !.obs = script.source,
                         !.afterChange = (prev.uri = uri),
                         !.afterHalf = (prev.uri = uri /\ prev.half),
                         !.pre = docs,
                         !.fault = fault,
                         !.answer = answer,
                         !.none = IF outcome = "ok" THEN @ ELSE FALSE,
                         !.result = IF outcome = "ok" THEN @ ELSE <<>>]
           /\ docs' = IF kind = "rename" /\ outcome = "ok" /\ ~result.none
                      THEN [docs EXCEPT ![uri].text = "t2"]
                      ELSE docs
    /\ UNCHANGED <<cur, committed, mirror, prev, counting, baseline>>

ReadCall(kind, uri, fault, answer, result) ==
    /\ LET script == get_jedi_script(docs, uri, fault)
           outcome == ReadOutcome(script, fault)
       IN  last' = [result EXCEPT
                      !.kind = kind, !.uri = uri, !.outcome = outcome,
                      !.obs = script.source,
                      !.afterChange = (prev.uri = uri),
                      !.afterHalf = (prev.uri = uri /\ prev.half),
                      !.pre = docs,
                      !.fault = fault,
                      !.answer = answer,
                      !.none = IF outcome = "ok" THEN @ ELSE FALSE,
                      !.result = IF outcome = "ok" THEN @ ELSE <<>>]
    /\ UNCHANGED <<docs, cur, committed, mirror, prev, counting, baseline>>

\* The engine's completion objects, and type_map.get_lsp_type.
Completions == [name : Names, type : {"function", "other"}]
CompletionLists == UNION {[1..n -> Completions] : n \in 0..MaxResults}
get_lsp_type(type) == IF type = "function" THEN "Function" ELSE "Text"

\* completion.description and completion.docstring() of an engine object;
\* the objects named n1 have an empty docstring.
description(completion) == <<completion.type, completion.name>>
completion_docstring(completion) == IF completion.name = "n1" THEN "" ELSE "doc"

CompletionItem(completion) ==
    [label |-> completion.name,
     kind |-> get_lsp_type(completion.type),
     detail |-> description(completion),
     documentation |-> completion_docstring(completion),
     insert_text |-> completion.name]

\* The list built from a set of the engine's completions: an item for each
\* completion that differs from the ones before it.
CompletionList_distinct(jedi_completions) ==
    LET kept == SelectSeq([k \in 1..Len(jedi_completions) |-> k],
                          LAMBDA k : \A j \in 1..(k - 1) :
                                       jedi_completions[j] # jedi_completions[k])
    IN  [is_incomplete |-> FALSE,
         items |-> [k \in 1..Len(kept) |->
                      CompletionItem(jedi_completions[kept[k]])]]

\* CompletionList(is_incomplete=False, items=[... for completion in ...]).
CompletionList(jedi_completions) ==
    [is_incomplete |-> FALSE,
     items |-> [k \in 1..Len(jedi_completions) |->
                  CompletionItem(jedi_completions[k])]]

\* The engine answers only when nothing failed before the answer.
Answers(fault, lists) == IF fault = "none" THEN lists ELSE {<<>>}

lsp_completion ==
    /\ Dispatchable("completion")
    /\ \E uri \in Uris, fault \in Faults :
       \E jedi_completions \in Answers(fault, CompletionLists) :
          ReadCall("completion", uri, fault, jedi_completions,
                   [NoCall EXCEPT !.result =
                       <<CompletionList(jedi_completions)>>])

\* lsp_definition handing on the first definition only.
lsp_definition_first ==
    /\ Dispatchable("definition")
    /\ \E uri \in Uris, fault \in Faults :
       \E definitions \in Answers(fault, DefinitionLists) :
          ReadCall("definition", uri, fault, definitions,
                   [NoCall EXCEPT !.result =
                       locations_from_definitions(
                           IF definitions = <<>>
                           THEN <<>>
                           ELSE <<definitions[1]>>)])

lsp_definition ==
    /\ Dispatchable("definition")
    /\ \E uri \in Uris, fault \in Faults :
       \E definitions \in Answers(fault, DefinitionLists) :
          ReadCall("definition", uri, fault, definitions,
                   [NoCall EXCEPT !.result =
                       locations_from_definitions(definitions)])

lsp_hover ==
    /\ Dispatchable("hover")
    /\ \E uri \in Uris, fault \in Faults :
       \E definitions \in Answers(fault, DefinitionLists) :
          ReadCall("hover", uri, fault, definitions,
                   [NoCall EXCEPT !.result =
                       <<IF definitions # <<>>
                         THEN docstring(definitions[1])
                         ELSE "No docstring definition found.">>])

lsp_references ==
    /\ Dispatchable("references")
    /\ \E uri \in Uris, fault \in Faults :
       \E definitions \in Answers(fault, DefinitionLists) :
          ReadCall("references", uri, fault, definitions,
                   [NoCall EXCEPT !.result =
                       locations_from_definitions(definitions)])

\* ------------------------------------------------------------------ rename
\* The edit built with the name under the cursor instead of the new one.
TextEdit_old_name(range, new_text) == [range |-> range, new_text |-> "n1"]

TextEdit(range, new_text) == [range |-> range, new_text |-> new_text]

\* The dict `changes` of lsp_rename: its keys in insertion order, and the
\* list of edits under each key.
NoChanges == [keys |-> <<>>, edits |-> <<>>]

HasKey(changes, uri) == \E k \in 1..Len(changes.keys) : changes.keys[k] = uri

\* The iteration with a slip: the edit replaces the list under its key.
AddEdit_overwrite(changes, location, newName) ==
    LET text_edit == TextEdit(location.range, newName)
    IN  IF ~HasKey(changes, location.uri)
        THEN [keys |-> Append(changes.keys, location.uri),
              edits |-> Append(changes.edits, <<text_edit>>)]
        ELSE [keys |-> changes.keys,
              edits |-> [k \in 1..Len(changes.keys) |->
                            IF changes.keys[k] = location.uri
                            THEN <<text_edit>>
                            ELSE changes.edits[k]]]

\* One iteration of the loop of lsp_rename.
AddEdit(changes, location, newName) ==
    LET text_edit == TextEdit(location.range, newName)
    IN  IF ~HasKey(changes, location.uri)
        THEN [keys |-> Append(changes.keys, location.uri),
              edits |-> Append(changes.edits, <<text_edit>>)]
        ELSE [keys |-> changes.keys,
              edits |-> [k \in 1..Len(changes.keys) |->
                            IF changes.keys[k] = location.uri
                            THEN Append(changes.edits[k], text_edit)
                            ELSE changes.edits[k]]]

RECURSIVE RenameLoop(_, _, _)
RenameLoop(changes, locations, newName) ==
    IF locations = <<>>
    THEN changes
    ELSE RenameLoop(AddEdit(changes, Head(locations), newName),
                    Tail(locations), newName)

\* lsp_rename leaving out the first usage.
RenameResult_skip_first(definitions, newName) ==
    LET locations == locations_from_definitions(
                        IF definitions = <<>> THEN <<>> ELSE Tail(definitions))
    IN  [NoCall EXCEPT
           !.newName = newName,
           !.none = (locations = <<>>),
           !.result = IF locations = <<>>
                      THEN <<>>
                      ELSE <<RenameLoop(NoChanges, locations, newName)>>]

\* lsp_rename without `if not locations: return None`.
RenameResult_unguarded(definitions, newName) ==
    LET locations == locations_from_definitions(definitions)
    IN  [NoCall EXCEPT
           !.newName = newName,
           !.result = <<RenameLoop(NoChanges, locations, newName)>>]

\* What lsp_rename returns for the engine's usages: None, or the
\* WorkspaceEdit whose changes the loop has built.
RenameResult(definitions, newName) ==
    LET locations == locations_from_definitions(definitions)
    IN  [NoCall EXCEPT
           !.newName = newName,
           !.none = (locations = <<>>),
           !.result = IF locations = <<>>
                      THEN <<>>
                      ELSE <<RenameLoop(NoChanges, locations, newName)>>]

lsp_rename ==
    /\ Dispatchable("rename")
    /\ \E uri \in Uris, fault \in Faults, newName \in Names :
       \E definitions \in Answers(fault, DefinitionLists) :
          ReadCall("rename", uri, fault, definitions,
                   RenameResult(definitions, newName))

\* ------------------------------------------------------------------ spec
Init ==
    /\ docs = [u \in Uris |-> NoDoc]
    /\ cur = Idle
    /\ last = NoCall
    /\ committed = [u \in Uris |-> NoDoc]
    /\ mirror = [u \in Uris |-> NoDoc]
    /\ prev = NoPrev
    /\ counting = FALSE
    /\ baseline = [u \in Uris |-> 0]

Next ==
    \/ lsp_did_open
    \/ lsp_did_change
    \/ lsp_did_change_step
    \/ lsp_completion
    \/ lsp_definition
    \/ lsp_hover
    \/ lsp_references
    \/ lsp_rename
    \/ Return

Spec == Init /\ [][Next]_vars

\* The notifications alone, with the history counter baseline kept.
InitCount ==
    /\ docs = [u \in Uris |-> NoDoc]
    /\ cur = Idle
    /\ last = NoCall
    /\ committed = [u \in Uris |-> NoDoc]
    /\ mirror = [u \in Uris |-> NoDoc]
    /\ prev = NoPrev
    /\ counting = TRUE
    /\ baseline = [u \in Uris |-> 0]

NextCount ==
    \/ lsp_did_open
    \/ lsp_did_change
    \/ lsp_did_change_step
    \/ Return

SpecCount == InitCount /\ [][NextCount]_vars
\* ------------------------------------------------------------------ positions
\* The Position Translator of the design document (the part of server_utils
\* that turns a protocol position into what the engine is given, and back).
\* A text is a sequence of characters: an ASCII letter, a line feed, or an
\* astral-plane character, which is two UTF-16 code units.  An offset is the
\* number of characters before the place it names.
Chars == {"a", "nl", "astral"}
PosTexts == UNION {[1..n -> Chars] : n \in 0..MaxTextLen}
Positions == [line : 0..(MaxTextLen + 1), character : 0..(2 * MaxTextLen + 1)]

\* The code-unit counting routine both directions share.
Units(char) == IF char = "astral" THEN 2 ELSE 1

\* The offset at which line `line` counted from offset `from` starts, -1 when
\* the text has no such line.
RECURSIVE LineStart(_, _, _)
LineStart(text, from, line) ==
    IF line = 0
    THEN from
    ELSE LET feeds == {k \in (from + 1)..Len(text) : text[k] = "nl"}
         IN  IF feeds = {}
             THEN -1
             ELSE LineStart(text,
                            CHOOSE k \in feeds : \A j \in feeds : k <= j,
                            line - 1)

\* The offset `units` code units after offset `from` on the same line, -1
\* when the line ends before or the place is inside a surrogate pair.
RECURSIVE WalkUnits(_, _, _)
WalkUnits(text, from, units) ==
    IF units = 0
    THEN from
    ELSE IF from = Len(text) \/ text[from + 1] = "nl"
         THEN -1
         ELSE IF Units(text[from + 1]) > units
              THEN -1
              ELSE WalkUnits(text, from + 1, units - Units(text[from + 1]))

toOffset(text, position) ==
    LET start == LineStart(text, 0, position.line)
        offset == IF start < 0 THEN -1
                  ELSE WalkUnits(text, start, position.character)
    IN  IF offset < 0
        THEN [err |-> "PositionOutOfRange", offset |-> 0]
        ELSE [err |-> "none", offset |-> offset]

RECURSIVE SumUnits(_, _, _)
SumUnits(text, from, to) ==
    IF from >= to THEN 0
    ELSE Units(text[from + 1]) + SumUnits(text, from + 1, to)

\* The start of the line that holds offset `offset`.
StartOfLineAt(text, offset) ==
    LET feeds == {k \in 1..offset : text[k] = "nl"}
    IN  IF feeds = {} THEN 0 ELSE CHOOSE k \in feeds : \A j \in feeds : k >= j

\* fromOffset counting characters instead of code units.
fromOffset_scalars(text, offset) ==
    [line |-> Cardinality({k \in 1..offset : text[k] = "nl"}),
     character |-> offset - StartOfLineAt(text, offset)]

fromOffset(text, offset) ==
    [line |-> Cardinality({k \in 1..offset : text[k] = "nl"}),
     character |-> SumUnits(text, StartOfLineAt(text, offset), offset)]

\* A position is translated to an offset and the offset back.
translate ==
    /\ last = NoCall
    /\ ~cur.active
    /\ \E text \in PosTexts, position \in Positions :
          LET r == toOffset(text, position)
          IN  last' = [NoCall EXCEPT
                         !.kind = "translate",
                         !.outcome = IF r.err = "none" THEN "ok" ELSE r.err,
                         !.answer = <<text, position>>,
                         !.result = IF r.err = "none"
                                    THEN <<r.offset, fromOffset(text, r.offset)>>
                                    ELSE <<>>]
    /\ UNCHANGED <<docs, cur, committed, mirror, prev, counting, baseline>>

NextPosition ==
    \/ translate
    \/ Return

SpecPosition == Init /\ [][NextPosition]_vars

\* ------------------------------------------------------------------ claims
Failures == {"KeyError", "UnknownDocument", "UnsupportedSyncMode",
             "PositionOutOfRange", "AnalysisUnavailable"}

ReadServed == last.kind \in ReadKinds /\ last.outcome = "ok"

\* A did-change with a non-empty payload has run through all its entries.
ChangeApplied == last.kind = "did_change" /\ last.outcome = "ok" /\ last.n > 0

\* C1: a read of a uri observes the text and version the document had when
\* the last notification handler ended, or, if an lsp_did_change on that uri
\* is under way, the text and version it leaves after all its entries; it
\* never observes the state after only some of the entries.
C1_ChangeIsAtomic ==
    ReadServed =>
        \/ last.obs = committed[last.uri]
        \/ cur.active /\ cur.uri = last.uri /\ last.obs = FinalDoc(cur)

\* A read served right after a did-change on its uri whose document passed
\* through a half-applied state.
C1_Witness ==
    ReadServed /\ last.afterHalf /\ last.obs = committed[last.uri]

\* C2: between handler calls the store holds, for every uri, the text and
\* version of the last notification the client sent for it, and a read is
\* served from that state: no notification is applied out of order and no
\* read overtakes a change sent before it.
C2_NotificationsInOrder ==
    /\ ~cur.active => docs = mirror
    /\ ReadServed => last.obs = mirror[last.uri]

\* A completion served right after a did-change on its uri.
C2_Witness ==
    /\ last.kind = "completion"
    /\ last.outcome = "ok"
    /\ last.afterChange
    /\ last.obs = mirror[last.uri]

C5_RangedChangeRejected ==
    (last.kind = "did_change" /\ last.ranged) =>
        last.outcome \in Failures /\ docs = last.pre

\* C6: a did-change with an empty payload returns normally and leaves every
\* document of the store as it was.
C6_EmptyChangeIsNoOp ==
    (last.kind = "did_change" /\ last.n = 0) =>
        last.outcome = "ok" /\ docs = last.pre

\* An empty did-change for a tracked document has returned.
C6_Witness ==
    /\ last.kind = "did_change"
    /\ last.n = 0
    /\ last.outcome = "ok"
    /\ docs[last.uri] # NoDoc

\* C7, as claimed: a did-change for a uri that is not tracked fails and
\* leaves the store as it was.
C7_UntrackedChangeFails ==
    (last.kind = "did_change" /\ last.pre[last.uri] = NoDoc) =>
        last.outcome \in Failures /\ docs = last.pre

\* C7, amended: a did-change for a uri that is not tracked leaves the store
\* as it was; it fails when its payload is not empty and returns normally
\* when it is.
C7_UntrackedChange ==
    (last.kind = "did_change" /\ last.pre[last.uri] = NoDoc) =>
        /\ docs = last.pre
        /\ last.n > 0 => last.outcome = "KeyError"
        /\ last.n = 0 => last.outcome = "ok"

\* A did-change with entries for an untracked uri has failed, next to a
\* tracked document.
C7_Witness ==
    /\ last.kind = "did_change"
    /\ last.pre[last.uri] = NoDoc
    /\ last.n > 0
    /\ last.outcome = "KeyError"
    /\ \E u \in Uris : docs[u] # NoDoc

\* C8: a did-open for a tracked uri either fails with DuplicateDocument and
\* changes nothing, or leaves exactly the text and version it carries under
\* that uri and every other document as it was.
C8_ReopenOverwrites ==
    (last.kind = "did_open" /\ last.pre[last.uri] # NoDoc) =>
        \/ last.outcome = "DuplicateDocument" /\ docs = last.pre
        \/ /\ last.outcome = "ok"
           /\ docs = [last.pre EXCEPT ![last.uri] =
                         [text |-> last.text, version |-> last.version]]

\* A did-open for a tracked uri that carries another text and version.
C8_Witness ==
    /\ last.kind = "did_open"
    /\ last.pre[last.uri] # NoDoc
    /\ last.pre[last.uri].text # last.text
    /\ last.pre[last.uri].version # last.version
    /\ docs[last.uri].version = last.version

\* C9: a call that fails leaves every other document as it was and leaves no
\* handler call under way, so the next message is dispatched as usual.
C9_FailureIsContained ==
    last.outcome \in Failures =>
        /\ \A u \in Uris \ {last.uri} : docs[u] = last.pre[u]
        /\ ~cur.active

\* A did-change has failed while another document is tracked.
C9_Witness ==
    /\ last.kind = "did_change"
    /\ last.outcome \in Failures
    /\ \E u \in Uris \ {last.uri} : docs[u] # NoDoc /\ docs[u] = last.pre[u]

\* The uris of a location list, each once, in the order of first appearance.
RECURSIVE FirstSeen(_)
FirstSeen(locations) ==
    IF locations = <<>>
    THEN <<>>
    ELSE LET front == FirstSeen(SubSeq(locations, 1, Len(locations) - 1))
             uri == locations[Len(locations)].uri
         IN  IF \E k \in 1..Len(front) : front[k] = uri
             THEN front
             ELSE Append(front, uri)

\* The ranges of the locations of one uri, in the order of the list.
RECURSIVE RangesOf(_, _)
RangesOf(locations, uri) ==
    IF locations = <<>>
    THEN <<>>
    ELSE IF Head(locations).uri = uri
         THEN <<Head(locations).range>> \o RangesOf(Tail(locations), uri)
         ELSE RangesOf(Tail(locations), uri)

\* C10: rename over a non-empty reference list returns an edit whose keys
\* are the distinct uris of the list, each once, in first-seen order, and
\* under each key the ranges of that uri's locations in the list's order.
C10_RenameGroupsByUri ==
    (last.kind = "rename" /\ last.outcome = "ok" /\ last.answer # <<>>) =>
        /\ ~last.none
        /\ LET changes == last.result[1]
               locations == locations_from_definitions(last.answer)
           IN  /\ changes.keys = FirstSeen(locations)
               /\ \A j, k \in 1..Len(changes.keys) :
                     changes.keys[j] = changes.keys[k] => j = k
               /\ {changes.keys[k] : k \in 1..Len(changes.keys)}
                     = {locations[k].uri : k \in 1..Len(locations)}
               /\ Len(changes.edits) = Len(changes.keys)
               /\ \A k \in 1..Len(changes.keys) :
                     [e \in 1..Len(changes.edits[k]) |-> changes.edits[k][e].range]
                        = RangesOf(locations, changes.keys[k])

\* A rename over a list that spans two uris and comes back to the first.
C10_Witness ==
    /\ last.kind = "rename"
    /\ last.outcome = "ok"
    /\ Len(last.answer) = 3
    /\ last.answer[1].uri = last.answer[3].uri
    /\ last.answer[1].uri # last.answer[2].uri
    /\ last.answer[1].range # last.answer[3].range
    /\ Len(last.result[1].keys) = 2
\* The engine was asked and answered: the uri is tracked and nothing failed.
Answered(kind) ==
    last.kind = kind /\ last.pre[last.uri] # NoDoc /\ last.fault = "none"

\* C11: rename over an empty reference list returns None and is not an
\* error; a rename that returns an edit returns one with at least one uri
\* and no uri with an empty edit list.
C11_RenameEmptyIsNone ==
    Answered("rename") =>
        /\ last.outcome = "ok"
        /\ last.answer = <<>> => last.none /\ last.result = <<>>
        /\ ~last.none =>
              /\ Len(last.result) = 1
              /\ last.result[1].keys # <<>>
              /\ \A k \in 1..Len(last.result[1].edits) :
                    last.result[1].edits[k] # <<>>

\* A rename over the empty reference list has returned None.
C11_Witness ==
    Answered("rename") /\ last.answer = <<>> /\ last.none /\ last.outcome = "ok"

Placeholder == "No docstring definition found."

\* C12: hover returns the first entry's documentation when the definition
\* list is non-empty and that entry has documentation, and the placeholder
\* text otherwise; it does not fail because of what the engine found.
C12_HoverPlaceholder ==
    Answered("hover") =>
        /\ last.outcome = "ok"
        /\ last.result =
              <<IF last.answer # <<>> /\ docstring(last.answer[1]) # ""
                THEN docstring(last.answer[1])
                ELSE Placeholder>>

\* C13: when the engine cannot analyse the text, none of the five read
\* requests fails: each returns its empty result (no items, no locations,
\* no edit), hover the placeholder.
C13_AnalysisUnavailableAbsorbed ==
    (last.kind \in ReadKinds /\ last.pre[last.uri] # NoDoc
        /\ last.fault = "AnalysisUnavailable") =>
        /\ last.outcome = "ok"
        /\ last.kind = "hover" => last.result = <<Placeholder>>
        /\ last.kind = "rename" => last.none
\* C14: the completion list has one item per engine completion, item i
\* built from completion i (its label and inserted text are the completion's
\* name), and is marked complete, also when the engine returns none.
C14_CompletionOrder ==
    Answered("completion") =>
        /\ last.outcome = "ok"
        /\ Len(last.result) = 1
        /\ ~last.result[1].is_incomplete
        /\ Len(last.result[1].items) = Len(last.answer)
        /\ \A k \in 1..Len(last.answer) :
              /\ last.result[1].items[k].label = last.answer[k].name
              /\ last.result[1].items[k].insert_text = last.answer[k].name
              /\ last.result[1].items[k].detail = description(last.answer[k])

\* A completion list of three items of which the first and the last come
\* from the same engine completion and the second from another.
C14_Witness ==
    /\ Answered("completion")
    /\ Len(last.answer) = 3
    /\ last.answer[1] = last.answer[3]
    /\ last.answer[1].name # last.answer[2].name
    /\ Len(last.result[1].items) = 3
\* C15: a definition or references request returns one location per engine
\* result, location i with the file and range of result i; for the empty
\* engine result it returns the empty list and does not fail.
C15_LocationsInEngineOrder ==
    (Answered("definition") \/ Answered("references")) =>
        /\ last.outcome = "ok"
        /\ Len(last.result) = Len(last.answer)
        /\ \A k \in 1..Len(last.answer) :
              /\ last.result[k].uri = last.answer[k].uri
              /\ last.result[k].range = last.answer[k].range

\* A definition request answered with three locations, not all alike.
C15_Witness ==
    /\ Answered("definition")
    /\ Len(last.answer) = 3
    /\ Len(last.result) = 3
    /\ last.result[1] # last.result[2]
    /\ last.result[2] # last.result[3]
\* The ranges of the edits a rename result lists under a uri, in order;
\* empty when the result is None or has no such key.
EditRanges(call, uri) ==
    IF call.none \/ call.result = <<>>
    THEN <<>>
    ELSE LET changes == call.result[1]
             at == {k \in 1..Len(changes.keys) : changes.keys[k] = uri}
         IN  IF at = {}
             THEN <<>>
             ELSE LET k == CHOOSE k \in at : TRUE
                  IN  [e \in 1..Len(changes.edits[k]) |->
                          changes.edits[k][e].range]

\* C16: for the engine's usages of one document state and position, rename
\* groups exactly the locations a references request returns: under every
\* uri its edits are the references of that uri in order, and it returns
\* None exactly when the references are empty.
C16_RenameUsesReferences ==
    Answered("rename") =>
        LET references == locations_from_definitions(last.answer)
        IN  /\ last.none <=> references = <<>>
            /\ \A u \in Uris : EditRanges(last, u) = RangesOf(references, u)

\* A rename whose references lie in both files, two of them in one.
C16_Witness ==
    /\ Answered("rename")
    /\ ~last.none
    /\ \E u \in Uris : Len(EditRanges(last, u)) = 2
    /\ \A u \in Uris : Len(EditRanges(last, u)) > 0
\* The number of lines of a text, and the code units of one of its lines.
NumLines(text) == 1 + Cardinality({k \in 1..Len(text) : text[k] = "nl"})

LineUnits(text, line) ==
    LET start == LineStart(text, 0, line)
        after == {k \in (start + 1)..Len(text) : text[k] = "nl"}
        end == IF after = {} THEN Len(text)
               ELSE (CHOOSE k \in after : \A j \in after : k <= j) - 1
    IN  SumUnits(text, start, end)

\* C17: a position that toOffset accepts comes back unchanged from
\* fromOffset, with astral characters counted as two code units, and
\* toOffset fails with PositionOutOfRange when the line is not a line of the
\* text or the character is beyond the end of that line.
C17_PositionRoundTrip ==
    last.kind = "translate" =>
        LET text == last.answer[1]
            position == last.answer[2]
        IN  /\ last.outcome = "ok" =>
                  /\ last.result[1] \in 0..Len(text)
                  /\ last.result[2] = position
            /\ (position.line >= NumLines(text)
                  \/ position.character > LineUnits(text, position.line))
                  => last.outcome = "PositionOutOfRange"
            /\ (position.line < NumLines(text) /\ position.character = 0)
                  => last.outcome = "ok"

\* A position on the second line, behind an astral character, translated.
C17_Witness ==
    /\ last.kind = "translate"
    /\ last.outcome = "ok"
    /\ last.answer[2].line = 1
    /\ last.answer[2].character >= 2
    /\ \E k \in 1..Len(last.answer[1]) :
          /\ last.answer[1][k] = "astral"
          /\ k <= last.result[1]
          /\ k > StartOfLineAt(last.answer[1], last.result[1])
\* C18: when one of the five read requests has returned or failed, the
\* store is what it was when the request was dispatched: the same uris are
\* tracked, with the same text and version; rename returns its edit and
\* applies none of it.
C18_ReadsLeaveStore ==
    last.kind \in ReadKinds =>
        /\ docs = last.pre
        /\ {u \in Uris : docs[u] # NoDoc} = {u \in Uris : last.pre[u] # NoDoc}

\* A rename of a tracked document has returned edits for that document.
C18_Witness ==
    /\ Answered("rename")
    /\ last.outcome = "ok"
    /\ ~last.none
    /\ Len(EditRanges(last, last.uri)) > 0
    /\ docs[last.uri].text = "t1"

\* The number of edits under all keys of a `changes` dict.
RECURSIVE TotalEdits(_)
TotalEdits(edits) ==
    IF edits = <<>> THEN 0 ELSE Len(Head(edits)) + TotalEdits(Tail(edits))

\* The place of location i among the locations of its uri.
Rank(locations, i) ==
    Cardinality({j \in 1..i : locations[j].uri = locations[i].uri})

\* C19: rename over a non-empty reference list returns as many edits, over
\* all uris, as the list has locations; every location has its own edit,
\* over that location's range; and every edit carries the new name the
\* client sent.
C19_RenameKeepsEveryEdit ==
    (last.kind = "rename" /\ last.outcome = "ok" /\ last.answer # <<>>) =>
        LET changes == last.result[1]
            locations == locations_from_definitions(last.answer)
        IN  /\ TotalEdits(changes.edits) = Len(locations)
            /\ \A i \in 1..Len(locations) :
                  \E k \in 1..Len(changes.keys) :
                     /\ changes.keys[k] = locations[i].uri
                     /\ Rank(locations, i) <= Len(changes.edits[k])
                     /\ changes.edits[k][Rank(locations, i)].range
                           = locations[i].range
            /\ \A k \in 1..Len(changes.edits) :
                  \A e \in 1..Len(changes.edits[k]) :
                     changes.edits[k][e].new_text = last.newName

\* A rename to "n2" over the longest list, with two equal locations.
C19_Witness ==
    /\ last.kind = "rename"
    /\ last.outcome = "ok"
    /\ last.newName = "n2"
    /\ Len(last.answer) = MaxResults
    /\ last.answer[1] = last.answer[2]
    /\ TotalEdits(last.result[1].edits) = MaxResults

\* C20: a did-open or did-change for a uri leaves the document of every
\* other uri as it was, when the handler has ended and at every point of
\* the loop of lsp_did_change.
C20_NotificationTouchesOneUri ==
    /\ last.kind \in {"did_open", "did_change"} =>
          \A u \in Uris \ {last.uri} : docs[u] = last.pre[u]
    /\ cur.active =>
          \A u \in Uris \ {cur.uri} : docs[u] = cur.pre[u]

\* A did-change has replaced one document while another is tracked.
C20_Witness ==
    /\ ChangeApplied
    /\ docs[last.uri] # last.pre[last.uri]
    /\ \E u \in Uris \ {last.uri} : docs[u] # NoDoc /\ docs[u] = last.pre[u]
====
